---- MODULE Spec2Model ----
(***************************************************************************)
(* Model of applications/notepad/executors/console-executor.py: the        *)
(* mapping loader, the state reader, the dedup + dispatch step, the queue  *)
(* writer and the poll loop of NotepadCommandExecutor.                     *)
(*                                                                         *)
(* Python strings that the code inspects (result, timestamp, mapping       *)
(* names) are sequences of one-character strings, so that strip() and the  *)
(* f-string that builds the dedup key are computed, not assumed.  Commands *)
(* and descriptions are opaque and stay TLA+ strings.                      *)
(***************************************************************************)
EXTENDS Integers, Sequences, FiniteSets, TLC

\* ------------------------------------------------------------------ bounds

\* consecutive completed polls of one unchanged state file that are counted
MaxPolls == 3

\* ---------------------------------------------------------- python strings

sEmpty == <<>>
sSpace == <<" ">>
sF     == <<"F">>
sPadF  == <<" ", "F", " ">>
sF1    == <<"F", "_", "1">>
sZ     == <<"Z">>
s1     == <<"1">>
s11    == <<"1", "_", "1">>
sNone  == <<"N", "o", "n", "e">>

IsSpace(c) == c \in {" ", "\t", "\n", "\r"}

RECURSIVE LStrip(_)
LStrip(s) == IF s # <<>> /\ IsSpace(Head(s)) THEN LStrip(Tail(s)) ELSE s

RECURSIVE RStrip(_)
RStrip(s) ==
    IF s # <<>> /\ IsSpace(s[Len(s)]) THEN RStrip(SubSeq(s, 1, Len(s) - 1)) ELSE s

\* str.strip()
Strip(s) == RStrip(LStrip(s))

DigitChar(d) == <<"0", "1", "2", "3", "4", "5", "6", "7", "8", "9">>[d + 1]

\* str(n) for a non-negative integer
RECURSIVE Digits(_)
Digits(n) == IF n < 10 THEN <<DigitChar(n)>> ELSE Digits(n \div 10) \o <<DigitChar(n % 10)>>

\* ------------------------------------------------------------ JSON values

\* A JSON field value as the code sees it after json.load and dict.get:
\* a string, a number, null, or the field being absent.
VStr(s)  == [t |-> "str", s |-> s, n |-> 0]
VNum(n)  == [t |-> "num", s |-> <<>>, n |-> n]
VNull    == [t |-> "null", s |-> <<>>, n |-> 0]
VAbsent  == [t |-> "absent", s |-> <<>>, n |-> 0]

\* the text an f-string substitutes for a value ({timestamp})
Format(v) ==
    CASE v.t = "str" -> v.s
      [] v.t = "num" -> Digits(v.n)
      [] OTHER       -> sNone

\* f"{result}_{timestamp}"
ResultKey(result, timestamp) == result \o <<"_">> \o Format(timestamp)

\* ------------------------------------------------------ the mapping source

Entry(name, command) ==
    [name |-> name, command |-> command, description |-> "desc", missing |-> "none"]

EntryMissing(name, command, field) ==
    [name |-> name, command |-> command, description |-> "desc", missing |-> field]

CfgAbsent    == [k |-> "absent",    hasOptions |-> FALSE, entries |-> <<>>]
CfgMalformed == [k |-> "malformed", hasOptions |-> FALSE, entries |-> <<>>]
CfgScalar    == [k |-> "scalar",    hasOptions |-> FALSE, entries |-> <<>>]
CfgList(es)  == [k |-> "list",      hasOptions |-> FALSE, entries |-> es]
CfgObject(es) == [k |-> "object",   hasOptions |-> TRUE,  entries |-> es]
CfgNoOptions == [k |-> "object",    hasOptions |-> FALSE, entries |-> <<>>]

RichEntries ==
    << Entry(sF, "CAST_FIRE"), Entry(sF1, "CAST_ICE"),
       Entry(sEmpty, "CAST_BLANK"), Entry(sPadF, "CAST_PAD") >>

\* the contents wheel-options.json may have when the process starts
ConfigFiles ==
    { CfgAbsent, CfgMalformed, CfgScalar, CfgNoOptions,
      CfgList(RichEntries),
      CfgObject(<< Entry(sF, "CAST_FIRE") >>),
      CfgList(<< Entry(sF, "CAST_FIRE"), EntryMissing(sF1, "CAST_ICE", "command") >>) }

NoMappings == [x \in {} |-> x]

\* the for-loop removing an entry whose name the table already holds
RECURSIVE LoadLoopToggling(_, _)
LoadLoopToggling(options, m) ==
    IF options = <<>> THEN [ok |-> TRUE, m |-> m]
    ELSE LET option == Head(options) IN
         IF option.missing # "none" THEN [ok |-> FALSE, m |-> m]
         ELSE IF option.name \in DOMAIN m
              THEN LoadLoopToggling(Tail(options),
                                    [n \in DOMAIN m \ {option.name} |-> m[n]])
              ELSE LoadLoopToggling(Tail(options),
                                    (option.name :> [command |-> option.command,
                                                     description |-> option.description]) @@ m)

\* the for-loop of load_action_mappings over the options, starting from m
RECURSIVE LoadLoop(_, _)
LoadLoop(options, m) ==
    IF options = <<>> THEN [ok |-> TRUE, m |-> m]
    ELSE LET option == Head(options) IN
         IF option.missing # "none" THEN [ok |-> FALSE, m |-> m]
         ELSE LoadLoop(Tail(options),
                       (option.name :> [command |-> option.command,
                                        description |-> option.description]) @@ m)

\* load_action_mappings taking an object for a source without options
LoadActionMappingsListOnly(cfg, m) ==
    IF cfg.k \in {"absent", "malformed", "scalar"} THEN [ok |-> FALSE, m |-> m]
    ELSE LET options == IF cfg.k = "list" THEN cfg.entries ELSE <<>>
         IN  LoadLoop(options, m)

\* load_action_mappings(): the return value and the new ACTION_MAPPINGS
LoadActionMappings(cfg, m) ==
    IF cfg.k \in {"absent", "malformed", "scalar"} THEN [ok |-> FALSE, m |-> m]
    ELSE LET options == IF cfg.k = "list" THEN cfg.entries
                        ELSE IF cfg.hasOptions THEN cfg.entries ELSE <<>>
         IN  LoadLoop(options, m)

\* ---------------------------------------------------------- the state file

\* What the producer may put in a snapshot object.  mods is only printed by
\* process_result (line 137) and is not part of the state.
ResultVals ==
    { VStr(sEmpty), VStr(sSpace), VStr(sF), VStr(sPadF), VStr(sF1), VStr(sZ),
      VNum(7), VAbsent }

TimestampVals == { VNum(1), VStr(s1), VStr(s11) }

Snapshots == [result : ResultVals, timestamp : TimestampVals]

NoSnap == [result |-> VAbsent, timestamp |-> VAbsent]

\* overlay-data.json: absent, unreadable, not JSON, or a JSON value that is
\* falsy ({}, [], null, 0), truthy but no object, or an object
FileAbsent     == [k |-> "absent",     d |-> NoSnap]
FileUnreadable == [k |-> "unreadable", d |-> NoSnap]
FileMalformed  == [k |-> "malformed",  d |-> NoSnap]
JsonFalsy      == [k |-> "falsy",      d |-> NoSnap]
JsonNonDict    == [k |-> "nondict",    d |-> NoSnap]
JsonDict(snap) == [k |-> "dict",       d |-> snap]

StateFiles ==
    { FileAbsent, FileUnreadable, FileMalformed, JsonFalsy, JsonNonDict }
        \cup { JsonDict(snap) : snap \in Snapshots }

\* Python's None as the value of the local variable data
NoData == [k |-> "none", d |-> NoSnap]

\* read_data_file returning None whatever the file holds
ReadDataFileNever(file) == NoData

\* read_data_file(): the value returned for a file content
ReadDataFile(file) ==
    IF file.k \in {"absent", "unreadable", "malformed"} THEN NoData ELSE file

\* read_data_file without the handler of lines 91-92
ReadRaisesOnMalformed(file) == file.k = "malformed"

\* whether read_data_file lets an exception out: lines 91-95 catch them all
ReadRaises(file) == FALSE

\* `if data:` in run
Truthy(value) == value.k \in {"nondict", "dict"}

\* ------------------------------------------------------------- the queue

NL == "\n"

\* the for-loop of write_command_queue: f.write(cmd + '\n') for each command
RECURSIVE AppendCommands(_, _)
AppendCommands(file, commands) ==
    IF commands = <<>> THEN file
    ELSE AppendCommands(file \o <<Head(commands), NL>>, Tail(commands))

\* write_command_queue opening the file with 'w': the old content is lost
WriteCommandQueueTruncating(file, commands, writable) ==
    IF writable THEN [ok |-> TRUE, file |-> AppendCommands(<<>>, commands)]
    ELSE [ok |-> FALSE, file |-> file]

\* write_command_queue(commands): the return value and the new file content.
\* Any failure in mkdir/open/write is caught and reported as False; a call
\* that fails is taken to have appended nothing.
WriteCommandQueue(file, commands, writable) ==
    IF writable THEN [ok |-> TRUE, file |-> AppendCommands(file, commands)]
    ELSE [ok |-> FALSE, file |-> file]

\* execute_notepad_command(command)
ExecuteNotepadCommand(file, command, writable) ==
    WriteCommandQueue(file, <<command>>, writable)

\* the newline-terminated lines of the queue file, in order
RECURSIVE Lines(_)
Lines(file) ==
    IF Len(file) < 2 THEN <<>>
    ELSE IF file[2] = NL THEN <<file[1]>> \o Lines(SubSeq(file, 3, Len(file)))
    ELSE Lines(Tail(file))

\* --------------------------------------------------------- process_result

\* data.get("result", "")
GetResult(data) == IF data.d.result.t = "absent" THEN VStr(<<>>) ELSE data.d.result

\* lines 120-122 raise AttributeError when data is no object (no .get) or
\* the result is no string (no .strip)
Raises(data) == data.k # "dict" \/ GetResult(data).t # "str"

\* data.get("result", "").strip()
TrimmedResult(data) == Strip(GetResult(data).s)

\* data.get("timestamp")
GetTimestamp(data) == IF data.d.timestamp.t = "absent" THEN VNull ELSE data.d.timestamp

\* result_key of line 125
KeyOf(data) == ResultKey(TrimmedResult(data), GetTimestamp(data))

\* process_result without the test of lines 126-127
ProcessOutcomeNoDedup(data, processed, mappings) ==
    IF Raises(data) THEN "raise"
    ELSE IF TrimmedResult(data) = <<>> THEN "blank"
    ELSE IF TrimmedResult(data) \in DOMAIN mappings THEN "dispatch"
    ELSE "unmapped"

\* process_result without the test of lines 129-130
ProcessOutcomeNoBlankCheck(data, processed, mappings) ==
    IF Raises(data) THEN "raise"
    ELSE IF KeyOf(data) \in processed THEN "duplicate"
    ELSE IF TrimmedResult(data) \in DOMAIN mappings THEN "dispatch"
    ELSE "unmapped"

\* process_result indexing ACTION_MAPPINGS without the test of line 133
ProcessOutcomeKeyError(data, processed, mappings) ==
    IF Raises(data) THEN "raise"
    ELSE IF KeyOf(data) \in processed THEN "duplicate"
    ELSE IF TrimmedResult(data) = <<>> THEN "blank"
    ELSE IF TrimmedResult(data) \in DOMAIN mappings THEN "dispatch"
    ELSE "raise"

\* the branch process_result takes, in the order of its tests
ProcessOutcome(data, processed, mappings) ==
    IF Raises(data) THEN "raise"
    ELSE IF KeyOf(data) \in processed THEN "duplicate"
    ELSE IF TrimmedResult(data) = <<>> THEN "blank"
    ELSE IF TrimmedResult(data) \in DOMAIN mappings THEN "dispatch"
    ELSE "unmapped"

\* ------------------------------------------------------------------ state

VARIABLES
    config,             \* content of OPTIONS_FILE (wheel-options.json)
    ACTION_MAPPINGS,    \* the global mapping table: name -> {command, description}
    stateFile,          \* content of DATA_FILE (overlay-data.json)
    queueFile,          \* content of COMMAND_QUEUE_FILE, as written tokens
    processed_results,  \* self.processed_results
    data,               \* the local variable data of run()
    pc,                 \* where run() is
    ret,                \* what process_result returned in this iteration
    exitStatus,         \* exit status of the process once it has ended
    origin,             \* history: the (trimmed result, timestamp) of each queued line
    dropped,            \* history: the (trimmed result, timestamp) whose write failed
    streak,             \* history: consecutive polls of the unchanged state file
    loadOk,             \* what load_action_mappings returned to run()
    wrote,              \* what execute_notepad_command returned (line 140)
    noDataSeen,         \* history: the kinds of "no data" polls so far
    stateReads          \* history: the state file was looked at

vars == << config, ACTION_MAPPINGS, stateFile, queueFile,
           processed_results, data, pc, ret, exitStatus,
           origin, dropped, streak, loadOk, wrote, noDataSeen, stateReads >>

PollingPcs == {"Read", "Process", "Mark", "Sleep", "ErrSleep"}

\* the Polling state of the poll loop's state machine
Polling == pc \in PollingPcs

PairOf(value) == [result |-> TrimmedResult(value), timestamp |-> GetTimestamp(value)]

StreakReset == [n |-> 0, base |-> 0, fresh |-> FALSE, failed |-> FALSE]

\* one more completed poll of the unchanged state file
StreakPolled(st) == [st EXCEPT !.n = IF st.n < MaxPolls THEN st.n + 1 ELSE st.n]

\* the first poll of a new content notes the queue length and whether the
\* snapshot's key is still unrecorded
StreakRead(st, value) ==
    IF st.n > 0 THEN st
    ELSE [n |-> 0, base |-> Len(Lines(queueFile)),
          fresh |-> (~Raises(value) /\ KeyOf(value) \notin processed_results),
          failed |-> FALSE]

Init ==
    /\ config \in ConfigFiles
    /\ ACTION_MAPPINGS = NoMappings
    /\ stateFile \in StateFiles
    /\ queueFile = <<>>
    /\ processed_results = {}
    /\ data = NoData
    /\ pc = "Init"
    /\ ret = "none"
    /\ exitStatus = "none"
    /\ origin = <<>>
    /\ dropped = {}
    /\ streak = StreakReset
    /\ loadOk = "unset"
    /\ wrote = "none"
    /\ noDataSeen = {}
    /\ stateReads = FALSE

\* ----------------------------------------------------------------- run()

\* run() going on to the loop whatever the loader returned
AfterLoadIgnored(ok) == "Read"

\* what run() does with the loader's return value (lines 154-156)
AfterLoad(ok) == IF ok THEN "Read" ELSE "Terminated"

\* the exit status of the interpreter when run() returns normally
\* (lines 175-177: nothing follows executor.run())
StatusOnReturn == "zero"

\* the exit status when an exception escapes run()
StatusOnUncaught == "nonzero"

\* lines 149-159: load the mappings, start polling or return
LoadMappings ==
    /\ pc = "Init"
    /\ LET r == LoadActionMappings(config, ACTION_MAPPINGS) IN
        /\ ACTION_MAPPINGS' = r.m
        /\ pc' = AfterLoad(r.ok)
        /\ loadOk' = IF r.ok THEN "True" ELSE "False"
        /\ exitStatus' = IF AfterLoad(r.ok) = "Terminated" THEN StatusOnReturn ELSE exitStatus
    /\ UNCHANGED << config, stateFile, queueFile, processed_results,
                    data, ret, origin, dropped, streak, wrote, noDataSeen, stateReads >>

\* the loop without the handler of lines 171-173: the exception ends run()
OnExceptionFatal == "Terminated"

\* where the loop goes when an iteration raises an Exception (lines 171-173)
OnException == "ErrSleep"

\* lines 163-164: data = self.read_data_file(); if data: ...
ReadStep ==
    /\ pc = "Read"
    /\ stateReads' = TRUE
    /\ ret' = "none"
    /\ IF ReadRaises(stateFile)
       THEN /\ pc' = OnException
            /\ data' = NoData
            /\ streak' = StreakPolled(StreakRead(streak, NoData))
            /\ UNCHANGED noDataSeen
       ELSE LET value == ReadDataFile(stateFile) IN
            /\ noDataSeen' = IF stateFile.k \in {"absent", "malformed"}
                             THEN noDataSeen \cup {stateFile.k} ELSE noDataSeen
            /\ IF Truthy(value)
               THEN /\ data' = value
                    /\ pc' = "Process"
                    /\ streak' = StreakRead(streak, value)
               ELSE /\ data' = NoData
                    /\ pc' = "Sleep"
                    /\ streak' = StreakPolled(StreakRead(streak, value))
    /\ UNCHANGED << config, ACTION_MAPPINGS, stateFile, queueFile,
                    processed_results, exitStatus, origin, dropped, loadOk, wrote >>

\* line 165 and process_result up to line 140: the tests, and on a fresh
\* mapped result the call of execute_notepad_command, whose mkdir/open/write
\* succeed (writable) or fail
Process(writable) ==
    /\ pc = "Process"
    /\ LET outcome == ProcessOutcome(data, processed_results, ACTION_MAPPINGS) IN
        CASE outcome = "raise" ->
                /\ pc' = OnException
                /\ data' = NoData
                /\ streak' = StreakPolled(streak)
                /\ UNCHANGED << queueFile, ret, origin, dropped, wrote >>
          [] outcome = "dispatch" ->
                LET action == ACTION_MAPPINGS[TrimmedResult(data)]
                    w == ExecuteNotepadCommand(queueFile, action.command, writable)
                IN  /\ queueFile' = w.file
                    /\ origin' = IF w.ok THEN Append(origin, PairOf(data)) ELSE origin
                    /\ dropped' = IF w.ok THEN dropped ELSE dropped \cup {PairOf(data)}
                    /\ streak' = IF w.ok THEN streak ELSE [streak EXCEPT !.failed = TRUE]
                    /\ wrote' = IF w.ok THEN "True" ELSE "False"
                    /\ pc' = "Mark"
                    /\ UNCHANGED << data, ret >>
          [] OTHER ->
                /\ ret' = "False"
                /\ pc' = "Sleep"
                /\ data' = NoData
                /\ streak' = StreakPolled(streak)
                /\ UNCHANGED << queueFile, origin, dropped, wrote >>
    /\ UNCHANGED << config, ACTION_MAPPINGS, stateFile,
                    processed_results, exitStatus, loadOk, noDataSeen, stateReads >>

ProcessResult == \E writable \in BOOLEAN : Process(writable)

\* line 143 left out
AddProcessedLost(processed, key, written) == processed

\* line 143 made to depend on the write having succeeded
AddProcessedIfWritten(processed, key, written) ==
    IF written = "True" THEN processed \cup {key} ELSE processed

\* line 143 keeping only the latest key, as last_result would
AddProcessedReplacing(processed, key, written) == {key}

\* the dedup set after line 143; the value execute_notepad_command returned
\* is not looked at
AddProcessed(processed, key, written) == processed \cup {key}

\* lines 142-145: mark as processed, return True
MarkProcessed ==
    /\ pc = "Mark"
    /\ processed_results' = AddProcessed(processed_results, KeyOf(data), wrote)
    /\ wrote' = "none"
    /\ ret' = "True"
    /\ pc' = "Sleep"
    /\ data' = NoData
    /\ streak' = StreakPolled(streak)
    /\ UNCHANGED << config, ACTION_MAPPINGS, stateFile, queueFile,
                    exitStatus, origin, dropped, loadOk, noDataSeen, stateReads >>

\* line 167: time.sleep(1), then the next iteration
SleepStep ==
    /\ pc = "Sleep"
    /\ pc' = "Read"
    /\ UNCHANGED << config, ACTION_MAPPINGS, stateFile, queueFile,
                    processed_results, data, ret, exitStatus,
                    origin, dropped, streak, loadOk, wrote, noDataSeen, stateReads >>

\* lines 171-173: print the error, time.sleep(1), then the next iteration
ErrSleepStep ==
    /\ pc = "ErrSleep"
    /\ pc' = "Read"
    /\ UNCHANGED << config, ACTION_MAPPINGS, stateFile, queueFile,
                    processed_results, data, ret, exitStatus,
                    origin, dropped, streak, loadOk, wrote, noDataSeen, stateReads >>

\* where a KeyboardInterrupt takes run(): inside the try of lines 162-167
\* it is caught by line 168; in the handler of lines 171-173 and before the
\* loop nothing catches it
OnInterrupt(at) ==
    IF at \in {"Read", "Process", "Mark", "Sleep"} THEN "ShuttingDown" ELSE "Terminated"

\* a KeyboardInterrupt is delivered
Interrupt ==
    /\ pc \in PollingPcs \cup {"Init"}
    /\ pc' = OnInterrupt(pc)
    /\ exitStatus' = IF OnInterrupt(pc) = "Terminated" THEN StatusOnUncaught ELSE exitStatus
    /\ data' = NoData
    /\ wrote' = "none"
    /\ streak' = StreakReset
    /\ UNCHANGED << config, ACTION_MAPPINGS, stateFile, queueFile,
                    processed_results, ret, origin, dropped,
                    loadOk, noDataSeen, stateReads >>

\* the shutdown emptying the mapping table before run() returns
ShutdownClearing ==
    /\ pc = "ShuttingDown"
    /\ pc' = "Terminated"
    /\ exitStatus' = "zero"
    /\ ACTION_MAPPINGS' = NoMappings
    /\ UNCHANGED << config, stateFile, queueFile,
                    processed_results, data, ret, origin, dropped, streak,
                    loadOk, wrote, noDataSeen, stateReads >>

\* lines 168-170: print "Shutdown requested", break; run() returns
Shutdown ==
    /\ pc = "ShuttingDown"
    /\ pc' = "Terminated"
    /\ exitStatus' = StatusOnReturn
    /\ UNCHANGED << config, ACTION_MAPPINGS, stateFile, queueFile,
                    processed_results, data, ret, origin, dropped, streak,
                    loadOk, wrote, noDataSeen, stateReads >>

\* ------------------------------------------------------------ environment

\* The producer rewrites, removes or corrupts the state file.  The loop
\* looks at the file once per iteration, so a change at any moment of an
\* iteration or of the sleep is to the loop a change just before its next
\* read.
ProducerWrites ==
    /\ pc = "Read"
    /\ \E f \in StateFiles \ {stateFile} : stateFile' = f
    /\ streak' = StreakReset
    /\ UNCHANGED << config, ACTION_MAPPINGS, queueFile,
                    processed_results, data, pc, ret, exitStatus,
                    origin, dropped, loadOk, wrote, noDataSeen, stateReads >>

Next ==
    \/ LoadMappings
    \/ ReadStep
    \/ ProcessResult
    \/ MarkProcessed
    \/ SleepStep
    \/ ErrSleepStep
    \/ Interrupt
    \/ Shutdown
    \/ ProducerWrites

Spec == Init /\ [][Next]_vars

\* ------------------------------------------- the loop left to run: liveness

\* The state file is absent when the process starts; the producer creates it
\* once, before the first poll or after any number of polls, and then leaves
\* it alone.  No interrupt arrives and queue writes succeed.
LiveInit == Init /\ stateFile = FileAbsent

CreateStateFile ==
    /\ pc = "Read"
    /\ stateFile = FileAbsent
    /\ \E f \in StateFiles \ {FileAbsent} : stateFile' = f
    /\ streak' = StreakReset
    /\ UNCHANGED << config, ACTION_MAPPINGS, queueFile,
                    processed_results, data, pc, ret, exitStatus,
                    origin, dropped, loadOk, wrote, noDataSeen, stateReads >>

\* the steps of run(): a single thread in `while True` with time.sleep(1)
LoopStep ==
    \/ LoadMappings
    \/ ReadStep
    \/ Process(TRUE)
    \/ MarkProcessed
    \/ SleepStep
    \/ ErrSleepStep

LiveNext == LoopStep \/ CreateStateFile

LiveSpec == LiveInit /\ [][LiveNext]_vars /\ WF_vars(LoopStep)

\* ------------------------------------------------------------- properties

Range(seq) == { seq[i] : i \in 1..Len(seq) }

\* the state file holds an object whose result is a string
FileIsSnapshot == stateFile.k = "dict" /\ ~Raises(stateFile)

\* C1: At-most-once dispatch.  For every (trimmed result, timestamp) pair at
\* most one line of the queue file was appended for it, whatever the polls
\* found and whether queue writes succeeded or failed; every line of the
\* queue has exactly one such pair as its origin.
C1_AtMostOnce ==
    /\ Len(origin) = Len(Lines(queueFile))
    /\ \A i, j \in 1..Len(origin) : origin[i] = origin[j] => i = j

\* C1 witness: a snapshot that was dispatched earlier has been polled again,
\* at least twice in a row, and the poll returned without dispatching.
C1_Witness ==
    /\ FileIsSnapshot
    /\ PairOf(stateFile) \in Range(origin)
    /\ pc = "Sleep" /\ ret = "False" /\ streak.n >= 2
    /\ dropped # {}

\* the command the mapping table gives for the trimmed result of a value
CommandFor(value) == ACTION_MAPPINGS[TrimmedResult(value)].command

\* the snapshot has a result that is a key of the mapping table as written
\* and also trimmed: "its result is mapped" holds on either reading
MappedBothWays(value) ==
    /\ value.d.result.t = "str"
    /\ GetResult(value).s \in DOMAIN ACTION_MAPPINGS
    /\ TrimmedResult(value) \in DOMAIN ACTION_MAPPINGS

\* the snapshot's trimmed result is not blank and is a key of the mapping table
MappedNonBlank(value) ==
    /\ TrimmedResult(value) # <<>>
    /\ TrimmedResult(value) \in DOMAIN ACTION_MAPPINGS

\* the snapshot in the state file has been polled at least once since it was
\* written, its key was unrecorded at the first of these polls, and no queue
\* write failed since
PolledFresh == streak.n >= 1 /\ FileIsSnapshot /\ streak.fresh /\ ~streak.failed

\* exactly one line, the given command, was appended since the first poll
OneLineAppended(command) ==
    LET lines == Lines(queueFile) IN
        /\ Len(lines) = streak.base + 1
        /\ lines[Len(lines)] = command

BlankAtProcess == pc = "Process" /\ ~Raises(data) /\ TrimmedResult(data) = <<>>

\* C3: For a snapshot whose result is empty or only whitespace (or absent),
\* with any timestamp, process_result returns not-dispatched and leaves the
\* queue file and the dedup set unchanged; no queued line stems from a blank
\* result.
C3_BlankNeverDispatched ==
    /\ [](\A i \in 1..Len(origin) : origin[i].result # <<>>)
    /\ [][BlankAtProcess =>
            /\ queueFile' = queueFile
            /\ processed_results' = processed_results
            /\ (ProcessResult => (ret' = "False" /\ pc' = "Sleep"))]_vars

\* C3 witness: a whitespace-only result was processed and returned False,
\* although the mapping table has an entry named by the empty string.
C3_Witness ==
    /\ pc = "Sleep" /\ ret = "False" /\ streak.n >= 1
    /\ stateFile.k = "dict" /\ stateFile.d.result = VStr(sSpace)
    /\ sEmpty \in DOMAIN ACTION_MAPPINGS

\* process_result is about to run on a snapshot whose trimmed result is no
\* key of the mapping table
UnmappedAtProcess ==
    pc = "Process" /\ ~Raises(data) /\ TrimmedResult(data) \notin DOMAIN ACTION_MAPPINGS

\* C4: For a snapshot whose trimmed result is no key of the mapping table,
\* process_result writes no command, raises nothing (the loop goes on to its
\* normal sleep), returns not-dispatched and records no key.
C4_UnmappedIgnored ==
    [][UnmappedAtProcess =>
            /\ queueFile' = queueFile
            /\ processed_results' = processed_results
            /\ (ProcessResult => (ret' = "False" /\ pc' = "Sleep"))]_vars

\* C4 witness: an unmapped, non-blank result was processed while the mapping
\* table is not empty, and the loop went to its normal sleep.
C4_Witness ==
    /\ pc = "Sleep" /\ ret = "False" /\ streak.n >= 1
    /\ stateFile.k = "dict" /\ stateFile.d.result = VStr(sZ)
    /\ DOMAIN ACTION_MAPPINGS # {}

QueueLen == Len(Lines(queueFile))

\* C5 as stated (LiveSpec): once the state file, absent for N >= 0 polls, holds
\* a valid snapshot whose result is mapped, exactly one command is eventually
\* queued, and never a second one.
C5_EventualDispatch_Original ==
    /\ [](QueueLen <= 1)
    /\ ((Polling /\ FileIsSnapshot /\ MappedBothWays(stateFile)) ~> (QueueLen = 1))

\* C5 amended (LiveSpec): once the state file, absent for N >= 0 polls, holds
\* a valid snapshot whose trimmed result is not blank and is mapped, the mapped
\* command is eventually queued, the queue never holds a second line and
\* never loses the first.
C5_EventualDispatch ==
    /\ [](QueueLen <= 1)
    /\ [][Len(Lines(queueFile')) >= QueueLen]_vars
    /\ ((Polling /\ FileIsSnapshot /\ MappedNonBlank(stateFile))
            ~> (/\ FileIsSnapshot /\ MappedNonBlank(stateFile)
                /\ Lines(queueFile) = <<CommandFor(stateFile)>>))

\* C5 witness: polls found the file absent, the file then appeared with a
\* mapped snapshot, and after further polls the queue holds one line.
C5_Witness ==
    /\ "absent" \in noDataSeen
    /\ FileIsSnapshot /\ MappedNonBlank(stateFile)
    /\ streak.n >= 2
    /\ Lines(queueFile) = <<CommandFor(stateFile)>>

\* a poll that finds the state file unparsable yields no data, changes
\* neither the dedup set nor the queue, and goes on to the normal sleep
CorruptPollIsNoData ==
    [][(pc = "Read" /\ stateFile.k = "malformed" /\ ReadStep) =>
            /\ data' = NoData
            /\ pc' = "Sleep"
            /\ processed_results' = processed_results
            /\ queueFile' = queueFile]_vars

\* process_result dispatches the value in data: it goes on to mark the key
\* and return True, and unless the write fails the queue gains the command
DispatchesData ==
    /\ pc' = "Mark"
    /\ wrote' \in {"True", "False"}
    /\ wrote' = "True" => queueFile' = queueFile \o <<CommandFor(data), NL>>
    /\ wrote' = "False" => queueFile' = queueFile

\* process_result runs, after some poll found the file unparsable, on a
\* string result whose key is not yet recorded
FreshAfterCorrupt ==
    /\ "malformed" \in noDataSeen
    /\ pc = "Process" /\ ProcessResult
    /\ ~Raises(data)
    /\ KeyOf(data) \notin processed_results

OptionsOf(cfg) ==
    IF cfg.k = "list" \/ (cfg.k = "object" /\ cfg.hasOptions) THEN cfg.entries ELSE <<>>

\* the mapping source is absent, is no list or object of entries, or has an
\* entry that lacks name, command or description
ConfigBad(cfg) ==
    \/ cfg.k \in {"absent", "malformed", "scalar"}
    \/ \E i \in 1..Len(OptionsOf(cfg)) : OptionsOf(cfg)[i].missing # "none"

\* C7: Startup gate.  If load_action_mappings fails (source absent, not valid
\* structured data, or an entry missing a field), run goes from Init straight
\* to Terminated and stays there: the state file is never read and nothing
\* is appended to the queue.
C7_StartupGate ==
    /\ [](ConfigBad(config) => loadOk # "True")
    /\ []((loadOk = "False") =>
            (pc = "Terminated" /\ ~stateReads /\ queueFile = <<>> /\ data = NoData))
    /\ [][(pc = "Init" /\ LoadMappings /\ ConfigBad(config)) => pc' = "Terminated"]_vars
    /\ [][pc = "Terminated" => pc' = "Terminated"]_vars

\* C7 witness: the load failed on an entry without a command after an earlier
\* entry had been stored, and run has ended.
C7_Witness ==
    /\ loadOk = "False" /\ pc = "Terminated"
    /\ config.k = "list" /\ DOMAIN ACTION_MAPPINGS # {}

\* C8 as stated: when the mapping load fails at startup the process ends with
\* a non-zero exit status; only a run that loaded its mappings may end with
\* status zero.
C8_NonZeroExitOnLoadFailure ==
    /\ (pc = "Terminated" /\ loadOk = "False") => exitStatus = "nonzero"
    /\ exitStatus = "zero" => loadOk = "True"

KeyOfPair(p) == ResultKey(p.result, p.timestamp)

\* C9: Queue-write failure drops the event.  When the write fails while a
\* fresh mapped event is dispatched, the queue is unchanged, the key is
\* recorded all the same by the next step of process_result, the loop goes on
\* to its sleep, and no later poll appends a line for that event, whether or
\* not writes succeed then.
C9_WriteFailureDrops ==
    /\ [](\A p \in dropped :
            /\ p \notin Range(origin)
            /\ (Polling /\ ~(pc = "Mark" /\ PairOf(data) = p))
                    => KeyOfPair(p) \in processed_results)
    /\ [][(pc = "Mark" /\ wrote = "False" /\ MarkProcessed) =>
            /\ KeyOf(data) \in processed_results'
            /\ queueFile' = queueFile
            /\ pc' = "Sleep"]_vars

\* C9 witness: an event's write failed, its snapshot was polled again at
\* least twice, a later write for another event succeeded, and the dropped
\* event has no line.
C9_Witness ==
    /\ FileIsSnapshot /\ PairOf(stateFile) \in dropped
    /\ pc = "Sleep" /\ ret = "False" /\ streak.n >= 2
    /\ origin # <<>>

\* C10: Per-iteration error containment.  An iteration that raises (a
\* snapshot that is no object, or whose result is no string) is caught: the
\* loop goes to the handler's sleep with the dedup set and the queue as they
\* were, and from there, unless interrupted, to the next read.
C10_ErrorContained ==
    /\ [][(pc = "Process" /\ Raises(data) /\ ProcessResult) =>
            /\ pc' = "ErrSleep"
            /\ processed_results' = processed_results
            /\ queueFile' = queueFile]_vars
    /\ [][(pc = "ErrSleep" /\ pc' # pc /\ ~Interrupt) => pc' = "Read"]_vars
    /\ [](pc = "ErrSleep" => ENABLED ErrSleepStep)

\* C10 witness: after dispatches, two iterations in a row raised on a snapshot
\* whose result is a number, and the loop is at its next read.
C10_Witness ==
    /\ pc = "Read" /\ streak.n >= 2
    /\ stateFile.k = "dict" /\ stateFile.d.result = VNum(7)
    /\ origin # <<>> /\ processed_results # {}

\* C11 as stated: Clean cancellation.  An interrupt delivered at any point
\* of Polling (the read, the dispatch, the normal sleep, the sleep after a
\* caught error) takes the loop to ShuttingDown and from there to Terminated
\* by run returning; a run that had entered the loop never ends by an
\* exception escaping run.
C11_CleanCancellation ==
    /\ [][(Polling /\ Interrupt) => pc' = "ShuttingDown"]_vars
    /\ [][pc = "ShuttingDown" => (pc' = "Terminated" /\ exitStatus' = "zero")]_vars
    /\ []((pc = "Terminated" /\ loadOk = "True") => exitStatus = "zero")

\* ------------------------------------- write_command_queue with a batch

\* the most commands one call of write_command_queue is given
MaxBatch == 2

\* the most queue lines up to which batches are written
MaxQueueLines == 3

BatchCommands == {"CAST_FIRE", "CAST_ICE"}

\* the ordered command lists a caller may hand to write_command_queue
Batches == UNION { [1..n -> BatchCommands] : n \in 0..MaxBatch }

\* The executor polls with one mapping loaded; the producer creates the
\* state file once, no interrupt arrives and the write of a dispatch
\* succeeds.  Between two iterations write_command_queue may be called with
\* a list of commands, as its signature allows; that call succeeds or fails.
QueueInit == LiveInit /\ config = CfgObject(<< Entry(sF, "CAST_FIRE") >>)

WriteBatch(commands, writable) ==
    /\ pc = "Read"
    /\ Len(Lines(queueFile)) + Len(commands) <= MaxQueueLines
    /\ queueFile' = WriteCommandQueue(queueFile, commands, writable).file
    /\ streak' = StreakReset
    /\ UNCHANGED << config, ACTION_MAPPINGS, stateFile,
                    processed_results, data, pc, ret, exitStatus,
                    origin, dropped, loadOk, wrote, noDataSeen, stateReads >>

WriteBatches == \E commands \in Batches, writable \in BOOLEAN : WriteBatch(commands, writable)

QueueNext == LoopStep \/ CreateStateFile \/ WriteBatches

QueueSpec == QueueInit /\ [][QueueNext]_vars

IsPrefix(s, t) == Len(s) <= Len(t) /\ SubSeq(t, 1, Len(s)) = s

\* after is before followed by each command of the list, in order, each
\* followed by a newline
BatchAppended(before, after, commands) ==
    /\ Len(after) = Len(before) + 2 * Len(commands)
    /\ IsPrefix(before, after)
    /\ \A i \in 1..Len(commands) :
        /\ after[Len(before) + 2 * i - 1] = commands[i]
        /\ after[Len(before) + 2 * i] = NL

\* no step removes, rewrites or reorders what the queue file holds
QueueOnlyGrows == [][IsPrefix(queueFile, queueFile')]_vars

\* C12 (QueueSpec): The queue file is append-only.  Every step of the poll
\* loop and every call of write_command_queue leaves the earlier contents as
\* a prefix of the later ones; a call that succeeds appends the given
\* commands in their given order, each followed by a newline, and a dispatch
\* appends the mapped command and a newline.
C12_AppendOnly ==
    /\ QueueOnlyGrows
    /\ [][\A commands \in Batches :
            WriteBatch(commands, TRUE) => BatchAppended(queueFile, queueFile', commands)]_vars
    /\ [][(pc = "Process" /\ wrote' = "True") =>
            BatchAppended(queueFile, queueFile', <<CommandFor(data)>>)]_vars

\* C12 witness: after a dispatched line and an earlier batch, a batch of two
\* different commands was appended in order at the end of the queue.
C12_Witness ==
    /\ origin # <<>>
    /\ Len(Lines(queueFile)) = MaxQueueLines + 1
    /\ \E i \in 2..MaxQueueLines :
        /\ Lines(queueFile)[i] = "CAST_ICE"
        /\ Lines(queueFile)[i + 1] = "CAST_FIRE"
        /\ i + 1 = Len(Lines(queueFile))

\* -------------------------------------- load_action_mappings on its own

\* the most entries a mapping source holds
MaxEntries == 2

\* entries a mapping source may hold: two commands under one name, a padded
\* and an empty name, and entries that lack a required field
EntryPool ==
    { Entry(sF, "CAST_FIRE"), Entry(sF, "CAST_ICE"),
      Entry(sPadF, "CAST_PAD"), Entry(sEmpty, "CAST_BLANK"),
      EntryMissing(sF1, "CAST_ICE", "command"),
      EntryMissing(sZ, "CAST_ICE", "description") }

EntryLists == UNION { [1..n -> EntryPool] : n \in 0..MaxEntries }

\* wheel-options.json holding an entry list as a bare list or under "options"
LoaderConfigs == { CfgList(L) : L \in EntryLists } \cup { CfgObject(L) : L \in EntryLists }

\* A fresh interpreter (ACTION_MAPPINGS = {}) in which load_action_mappings
\* is called, and then called again, on the same mapping source.
LoaderInit ==
    /\ config \in LoaderConfigs
    /\ ACTION_MAPPINGS = NoMappings
    /\ stateFile = FileAbsent
    /\ queueFile = <<>>
    /\ processed_results = {}
    /\ data = NoData
    /\ pc = "Init"
    /\ ret = "none"
    /\ exitStatus = "none"
    /\ origin = <<>>
    /\ dropped = {}
    /\ streak = StreakReset
    /\ loadOk = "unset"
    /\ wrote = "none"
    /\ noDataSeen = {}
    /\ stateReads = FALSE

\* one call of load_action_mappings(): pc counts the calls made
LoadCall ==
    /\ pc \in {"Init", "Loaded"}
    /\ LET r == LoadActionMappings(config, ACTION_MAPPINGS) IN
        /\ ACTION_MAPPINGS' = r.m
        /\ loadOk' = IF r.ok THEN "True" ELSE "False"
    /\ pc' = IF pc = "Init" THEN "Loaded" ELSE "Reloaded"
    /\ UNCHANGED << config, stateFile, queueFile, processed_results,
                    data, ret, exitStatus, origin, dropped, streak,
                    wrote, noDataSeen, stateReads >>

LoaderNext == LoadCall

LoaderSpec == LoaderInit /\ [][LoaderNext]_vars

\* the same entry list in the other shape
OtherShape(cfg) == IF cfg.k = "list" THEN CfgObject(cfg.entries) ELSE CfgList(cfg.entries)

\* every element of the list has name, command and description
AllEntries(L) == \A i \in 1..Len(L) : L[i].missing = "none"

\* C13 as stated (LoaderSpec): for every entry list L, loading the bare list
\* L and loading the object {options: L} yield the same mapping from name to
\* {command, description}, and both report success.
C13_ShapesAgree_Original ==
    pc = "Loaded" =>
        LET other == LoadActionMappings(OtherShape(config), NoMappings) IN
            /\ ACTION_MAPPINGS = other.m
            /\ loadOk = "True" /\ other.ok

\* C13 amended (LoaderSpec): for every entry list L, loading the bare list L
\* and loading the object {options: L} leave the same mapping from name to
\* {command, description} and return the same value; both report success
\* when every entry of L has its name, command and description.
C13_ShapesAgree ==
    pc = "Loaded" =>
        LET other == LoadActionMappings(OtherShape(config), NoMappings) IN
            /\ ACTION_MAPPINGS = other.m
            /\ (loadOk = "True") = other.ok
            /\ AllEntries(config.entries) => (loadOk = "True" /\ other.ok)

\* C13 witness: an object with an options field of two entries with
\* different names was loaded with success, and the table has both names.
C13_Witness ==
    /\ pc = "Loaded" /\ loadOk = "True"
    /\ config.k = "object" /\ Len(config.entries) = 2
    /\ DOMAIN ACTION_MAPPINGS = {sF, sPadF}
    /\ ACTION_MAPPINGS[sPadF].command = "CAST_PAD"

\* C14 (LoaderSpec): Loader determinism.  A second call of
\* load_action_mappings on the same source leaves the table with the contents
\* the first call left, and returns what the first call returned; for a
\* valid entry list both calls report success.
C14_LoadTwice ==
    [][(pc = "Loaded" /\ LoadCall) =>
            /\ ACTION_MAPPINGS' = ACTION_MAPPINGS
            /\ loadOk' = loadOk
            /\ AllEntries(config.entries) => loadOk' = "True"]_vars

\* C14 witness: a valid list of two entries with one name and different
\* commands was loaded twice, and the table holds the command of the later
\* entry.
C14_Witness ==
    /\ pc = "Reloaded" /\ loadOk = "True"
    /\ Len(config.entries) = 2 /\ AllEntries(config.entries)
    /\ config.entries[1].command # config.entries[2].command
    /\ DOMAIN ACTION_MAPPINGS = {sF}
    /\ ACTION_MAPPINGS[sF].command = config.entries[2].command

\* C15 as stated: Record-before-emit.  The result key is in the dedup set
\* when the mapped command is handed to the queue writer: in no reachable
\* state does the queue hold a line whose key is not recorded.
C15_RecordBeforeEmit ==
    \A i \in 1..Len(origin) : KeyOfPair(origin[i]) \in processed_results

\* C16 as stated: the dedup key is injective on events.  Two events whose
\* (trimmed result, timestamp) pairs differ have different keys, so whenever
\* process_result finds the key of its event in the dedup set, that very
\* event was dispatched (queued, or dropped by a failed write) earlier; an
\* event is never suppressed by the key of a different one.
C16_KeyInjective ==
    /\ \A p, q \in Range(origin) \cup dropped : p # q => KeyOfPair(p) # KeyOfPair(q)
    /\ (pc = "Process" /\ ~Raises(data) /\ KeyOf(data) \in processed_results)
            => PairOf(data) \in Range(origin) \cup dropped

\* C17: The dedup set grows monotonically.  No step of the poll loop (read,
\* dispatch, failed write, caught error, cancellation) removes a key from
\* processed_results; the set changes only at line 143 of a dispatch of a
\* mapped, non-blank result, by gaining that event's key; every key it holds
\* is the key of such a dispatch, queued or dropped.
C17_DedupMonotone ==
    /\ [][processed_results \subseteq processed_results']_vars
    /\ [][processed_results' # processed_results =>
            /\ pc = "Mark" /\ MarkProcessed
            /\ MappedNonBlank(data)
            /\ processed_results' = processed_results \cup {KeyOf(data)}]_vars
    /\ [](\A key \in processed_results :
            \E p \in Range(origin) \cup dropped :
                /\ KeyOfPair(p) = key
                /\ p.result # <<>>
                /\ p.result \in DOMAIN ACTION_MAPPINGS)

\* C17 witness: the loop was cancelled after dispatches, one of them with a
\* failed write, and the dedup set still holds their keys.
C17_Witness ==
    /\ pc = "ShuttingDown"
    /\ Cardinality(processed_results) >= 2
    /\ dropped # {} /\ origin # <<>>
    /\ \A p \in dropped : KeyOfPair(p) \in processed_results

\* C18: The mapping table is immutable after a successful load.  Once the
\* loop is in Polling no step (poll, dispatch, caught error, cancellation,
\* shutdown) changes ACTION_MAPPINGS: it stays what the load made of the
\* mapping source.
C18_MappingsImmutable ==
    /\ [][pc # "Init" => ACTION_MAPPINGS' = ACTION_MAPPINGS]_vars
    /\ [](loadOk = "True" =>
            ACTION_MAPPINGS = LoadActionMappings(config, NoMappings).m)

\* C18 witness: after dispatches, a failed write and a cancellation the run
\* has ended with the four mappings it loaded.
C18_Witness ==
    /\ pc = "Terminated" /\ loadOk = "True"
    /\ origin # <<>> /\ dropped # {}
    /\ DOMAIN ACTION_MAPPINGS = {sF, sF1, sEmpty, sPadF}

\* C19 as stated: Queue/dedup consistency.  In every reachable state every
\* line of the queue is the command of some mapping-table entry, the queue
\* has at most as many lines as the dedup set has keys (as many when no
\* queue write has failed), and every key of the dedup set was built from a
\* result that is a key of the mapping table.
C19_QueueDedupConsistent ==
    /\ \A i \in 1..Len(Lines(queueFile)) :
        \E name \in DOMAIN ACTION_MAPPINGS :
            ACTION_MAPPINGS[name].command = Lines(queueFile)[i]
    /\ Len(Lines(queueFile)) <= Cardinality(processed_results)
    /\ dropped = {} => Len(Lines(queueFile)) = Cardinality(processed_results)
    /\ \A key \in processed_results :
        \E p \in Range(origin) \cup dropped :
            KeyOfPair(p) = key /\ p.result \in DOMAIN ACTION_MAPPINGS

====
